---- MODULE Spec2Model ----
(***************************************************************************)
(* Model of run_analysis.py: execute_query (one SQL file, rendered to the  *)
(* console or to a CSV file) and main (precondition checks, the batch loop *)
(* over the query files, the wrap-up and the finally block).               *)
(*                                                                         *)
(* A file name is the pair <<root, ext>> that os.path.splitext yields, a   *)
(* path is <<folder, file name>>, an optional value (None or v) is <<>> or *)
(* <<v>>, and a printed line is [kind, text] with text a tuple of strings. *)
(***************************************************************************)
EXTENDS Integers, Sequences, FiniteSets, TLC

VARIABLES
    pc,                 \* position of main
    args,               \* parsed command line: sql_file, limit, csv
    dbFileExists,       \* os.path.exists(DB_FILE)
    sqlFiles,           \* file names present in SQL_FOLDER
    resultsDir,         \* os.path.exists(RESULTS_FOLDER)
    csvFiles,           \* csv path -> lines of the file, for the files that exist
    query_files_to_run, \* main's list
    idx,                \* 1-based position of the for loop in query_files_to_run
    conn,               \* "None", "open" or "closed"
    all_successful,     \* main's flag
    calls,              \* one entry per loop iteration: file and what became of it
    cur,                \* what the database and the file system did in the last call
    stdout,             \* lines printed by this process
    exitCode,           \* <<>> while running, <<code>> once the process has ended
    before              \* csv path -> number of lines, as this process found the files

vars == <<pc, args, dbFileExists, sqlFiles, resultsDir, csvFiles,
          query_files_to_run, idx, conn, all_successful, calls, cur, stdout,
          exitCode, before>>

-----------------------------------------------------------------------------
(* Bounds of the model *)

MaxRows == 4        \* small result sets have 0..MaxRows rows
MaxChunks == 2      \* large result sets lie around 1..MaxChunks fetch batches
MaxLimit == 3       \* --limit ranges over -1..MaxLimit, or is unset

(* Configuration *)

SQL_FOLDER == "projects"
RESULTS_FOLDER == "results"
DEFAULT_QUERY_FILES ==
    << <<"nsclc_therapy_matching", ".sql">>,
       <<"crc_folfox_analysis", ".sql">>,
       <<"ovarian_ca125_trends", ".sql">> >>
FETCH_SIZE == 1000

-----------------------------------------------------------------------------
(* Helpers *)

Min(a, b) == IF a <= b THEN a ELSE b
Range(s) == {s[i] : i \in 1..Len(s)}
Line(kind, text) == [kind |-> kind, text |-> text]
OfKind(lines, kind) == SelectSeq(lines, LAMBDA l : l.kind = kind)
Texts(lines) == [i \in 1..Len(lines) |-> lines[i].text]

\* os.path.basename / os.path.join / os.path.splitext on the pairs above
Basename(path) == path[2]
Join(folder, file) == <<folder, file>>
Splitext(file) == <<file[1], file[2]>>
PathText(path) == <<path[1], path[2][1], path[2][2]>>

\* str(value) of every value of a row: what print and csv.writer both apply
StrRow(row) == [i \in 1..Len(row) |-> ToString(row[i])]
StrRows(rows) == [i \in 1..Len(rows) |-> StrRow(rows[i])]

-----------------------------------------------------------------------------
(* The database and the file system as execute_query meets them *)

\* exception classes, and isinstance over the part of the hierarchy used
Subclasses(class) ==
    CASE class = "OSError" -> {"OSError", "FileNotFoundError"}
      [] class = "Exception" ->
            {"Exception", "OSError", "FileNotFoundError", "sqlite3.Error",
             "UnicodeDecodeError", "UnboundLocalError"}
      [] OTHER -> {class}
IsInstance(exc, class) == exc # <<>> /\ exc[1] \in Subclasses(class)

COLUMNS == <<"patient_id", "first_name">>
\* a statement that returns no rows has no cursor.description
NonRowResult == [cols |-> <<>>, rows |-> <<>>]
\* k rows of a SELECT over data set seed
SelectResult(seed, k) == [cols |-> COLUMNS, rows |-> [i \in 1..k |-> <<i, seed>>]]

\* The cursor is the sequence of rows not yet fetched.
fetchmany(cursor, size) == SubSeq(cursor, 1, Min(size, Len(cursor)))
fetchall(cursor) == cursor
fetchone(cursor) == IF cursor = <<>> THEN <<>> ELSE <<cursor[1]>>
After(cursor, fetched) == SubSeq(cursor, Len(fetched) + 1, Len(cursor))

-----------------------------------------------------------------------------
(* execute_query, CSV branch *)

\* as open(csv_filepath, 'a') would: what the file held is kept
OpenAppend(files, path) ==
    [p \in DOMAIN files \cup {path} |-> IF p \in DOMAIN files THEN files[p] ELSE <<>>]
\* line 37, open(csv_filepath, 'w'): the file exists and is empty
OpenWrite(files, path) ==
    [p \in DOMAIN files \cup {path} |-> IF p = path THEN <<>> ELSE files[p]]

\* a single fetchmany instead of the loop
FetchFirstBatchOnly(cursor, written, fetched_count, fault) ==
    LET rows == fetchmany(cursor, FETCH_SIZE)
    IN [exc |-> <<>>, written |-> written \o StrRows(rows),
        fetched_count |-> fetched_count + Len(rows)]
\* lines 41-47, the while loop: fetchmany(1000) until an empty batch; a fault
\* strikes the first fetchmany ("fetch") or the first writerows ("write")
RECURSIVE FetchLoop(_, _, _, _)
FetchLoop(cursor, written, fetched_count, fault) ==
    IF fault = "fetch"
    THEN [exc |-> <<"sqlite3.Error">>, written |-> written,
          fetched_count |-> fetched_count]
    ELSE LET rows == fetchmany(cursor, FETCH_SIZE)
         IN IF rows = <<>>
            THEN [exc |-> <<>>, written |-> written, fetched_count |-> fetched_count]
            ELSE IF fault = "write"
            THEN [exc |-> <<"OSError">>, written |-> written,
                  fetched_count |-> fetched_count]
            ELSE FetchLoop(After(cursor, rows), written \o StrRows(rows),
                           fetched_count + Len(rows), "none")

\* lines 30-48; yields the exception raised (if any), csv_filepath if it was
\* assigned, the lines printed and the file system left behind
CsvBranch(filename, env, column_names, files, dir) ==
    IF ~dir /\ env.fault = "makedirs"
    THEN [exc |-> <<"OSError">>, csv_filepath |-> <<>>, out |-> <<>>,
          files |-> files, dir |-> dir]
    ELSE LET csv_filename == <<Splitext(filename)[1], ".csv">>
             csv_filepath == Join(RESULTS_FOLDER, csv_filename)
         IN IF env.fault = "open_csv"
            THEN [exc |-> <<"OSError">>, csv_filepath |-> <<csv_filepath>>, out |-> <<>>,
                  files |-> files, dir |-> TRUE]
            ELSE LET opened == OpenWrite(files, csv_filepath)
                     header == IF column_names # <<>> THEN <<column_names>> ELSE <<>>
                     loop == FetchLoop(env.rows, opened[csv_filepath] \o header, 0,
                                       env.fault)
                 IN [exc |-> loop.exc, csv_filepath |-> <<csv_filepath>>,
                     out |-> IF loop.exc = <<>>
                             THEN <<Line("saved", PathText(csv_filepath)
                                              \o <<ToString(loop.fetched_count)>>)>>
                             ELSE <<>>,
                     files |-> [opened EXCEPT ![csv_filepath] = loop.written],
                     dir |-> TRUE]

-----------------------------------------------------------------------------
(* execute_query, console branch *)

\* fetchmany for every limit given, 0 and negatives included
FetchWheneverLimitGiven(cursor, limit) ==
    IF limit # <<>> THEN fetchmany(cursor, IF limit[1] > 0 THEN limit[1] ELSE 0)
    ELSE fetchall(cursor)
\* line 52
ConsoleFetch(cursor, limit) ==
    IF limit # <<>> /\ limit[1] > 0 THEN fetchmany(cursor, limit[1])
    ELSE fetchall(cursor)

\* as "results is None" would: a list never is
IsNone(results) == FALSE
\* line 54, "not results"
NoResults(results) == results = <<>>

\* the indicator without the probe
LimitReached(cursor, limit, results) ==
    limit # <<>> /\ limit[1] > 0 /\ Len(results) = limit[1]
\* lines 66-70: probe one more row when exactly limit rows were fetched
OutputLimited(cursor, limit, results) ==
    /\ limit # <<>> /\ limit[1] > 0 /\ Len(results) = limit[1]
    /\ fetchone(After(cursor, results)) # <<>>

\* lines 50-73
ConsoleBranch(filename, env, column_names, limit, files, dir) ==
    IF env.fault = "fetch"
    THEN [exc |-> <<"sqlite3.Error">>, csv_filepath |-> <<>>, out |-> <<>>,
          files |-> files, dir |-> dir]
    ELSE LET results == ConsoleFetch(env.rows, limit)
             block ==
                IF NoResults(results)
                THEN <<Line("noresults", <<>>)>>
                ELSE (IF column_names # <<>>
                      THEN <<Line("header", column_names), Line("rule", column_names)>>
                      ELSE <<>>)
                     \o [i \in 1..Len(results) |-> Line("row", StrRow(results[i]))]
                     \o (IF OutputLimited(env.rows, limit, results)
                         THEN <<Line("limited", <<>>)>> ELSE <<>>)
         IN [exc |-> <<>>, csv_filepath |-> <<>>,
             out |-> block \o <<Line("done", filename)>>,
             files |-> files, dir |-> dir]

-----------------------------------------------------------------------------
(* execute_query *)

\* lines 22-74: the body of the try
TryBody(filepath, limit, output_csv, env, existing, files, dir) ==
    LET filename == Basename(filepath)
        failed(exc) == [exc |-> <<exc>>, csv_filepath |-> <<>>, out |-> <<>>,
                        files |-> files, dir |-> dir]
    IN IF filename \notin existing THEN failed("FileNotFoundError")
       ELSE IF env.fault = "read_os" THEN failed("OSError")
       ELSE IF env.fault = "read_decode" THEN failed("UnicodeDecodeError")
       ELSE IF env.fault = "execute" THEN failed("sqlite3.Error")
       ELSE IF output_csv THEN CsvBranch(filename, env, env.cols, files, dir)
       ELSE ConsoleBranch(filename, env, env.cols, limit, files, dir)

\* lines 76-87: the except clauses, tried in order.  The IOError clause
\* formats csv_filepath, a local that only line 35 assigns.
Handlers(filepath, body) ==
    LET pathText == PathText(filepath)
    IN IF body.exc = <<>>
       THEN [ret |-> "True", out |-> <<>>]
       ELSE IF IsInstance(body.exc, "sqlite3.Error")
       THEN [ret |-> "False", out |-> <<Line("!! SQL Error", pathText)>>]
       ELSE IF IsInstance(body.exc, "FileNotFoundError")
       THEN [ret |-> "False", out |-> <<Line("!! File not found", pathText)>>]
       ELSE IF IsInstance(body.exc, "OSError")
       THEN IF body.csv_filepath # <<>>
            THEN [ret |-> "False",
                  out |-> <<Line("!! Error writing CSV", PathText(body.csv_filepath[1]))>>]
            ELSE [ret |-> "UnboundLocalError", out |-> <<>>]
       ELSE [ret |-> "False", out |-> <<Line("!! Unexpected error", pathText)>>]

\* ret is "True" or "False" when the call returns, and the exception's class
\* when one leaves the call
execute_query(filepath, limit, output_csv, env, existing, files, dir) ==
    LET body == TryBody(filepath, limit, output_csv, env, existing, files, dir)
        handled == Handlers(filepath, body)
    IN [ret |-> handled.ret,
        out |-> <<Line("running", Basename(filepath))>> \o body.out \o handled.out,
        files |-> body.files, dir |-> body.dir]

-----------------------------------------------------------------------------
(* Inputs *)

Limits == {<<>>} \cup {<<n>> : n \in -1..MaxLimit}
DefaultFiles == Range(DEFAULT_QUERY_FILES)
\* sql_file is a path typed by the user; only its base name is used
SqlFileArgs == {<<>>} \cup {<<Join(d, f)>> : d \in {"", "elsewhere"}, f \in DefaultFiles}

\* result-set sizes: around the limit, and around the fetch batches
SmallCards == 0..MaxRows
LargeCards == {c * FETCH_SIZE + d : c \in 1..MaxChunks, d \in 0..1}
Seeds == {1, 2}
Results(seeds, cards) ==
    {NonRowResult} \cup {SelectResult(s, k) : s \in seeds, k \in cards}
\* What one call may meet.  A fault before the first fetch makes the result
\* set irrelevant; the faults of the fetch loop strike its first batch, so the
\* result sets of csvCards rows (exported only) are met without a fault.
Envs(cards, csvCards, output_csv) ==
    {[fault |-> f, cols |-> r.cols, rows |-> r.rows] :
        f \in {"none", "fetch"} \cup (IF output_csv THEN {"write"} ELSE {}),
        r \in Results(Seeds, cards)}
    \cup {[fault |-> "none", cols |-> r.cols, rows |-> r.rows] :
        r \in Results({CHOOSE s \in Seeds : TRUE}, IF output_csv THEN csvCards ELSE {})}
    \cup {[fault |-> f, cols |-> <<>>, rows |-> <<>>] :
        f \in {"read_os", "read_decode", "execute"}
              \cup (IF output_csv THEN {"makedirs", "open_csv"} ELSE {})}
NoEnv == [fault |-> "none", cols |-> <<>>, rows |-> <<>>]

-----------------------------------------------------------------------------
(* main *)

\* lines 167-175: main returns, the interpreter exits with status 0
ExitOnFailure(successful) == IF successful THEN 0 ELSE 1
ExitStatus(successful) == 0

\* lines 169-170
NeverClose(c) == c
CloseIfOpen(c) == IF c = "open" THEN "closed" ELSE c

\* lines 113-115
CheckDb ==
    /\ pc = "check_db"
    /\ IF ~dbFileExists
       THEN /\ stdout' = stdout \o <<Line("!! Error: DB file not found", <<>>)>>
            /\ exitCode' = <<1>>
            /\ pc' = "exited"
       ELSE /\ pc' = "resolve"
            /\ UNCHANGED <<stdout, exitCode>>
    /\ UNCHANGED <<args, dbFileExists, sqlFiles, resultsDir, csvFiles,
                   query_files_to_run, idx, conn, all_successful, calls, cur, before>>

\* lines 117-133
Resolve ==
    /\ pc = "resolve"
    /\ IF args.sql_file # <<>>
       THEN LET filename_only == Basename(args.sql_file[1])
            IN IF filename_only \notin sqlFiles
               THEN /\ stdout' = stdout \o <<Line("!! Error: File not found",
                                                  filename_only)>>
                    /\ exitCode' = <<1>>
                    /\ pc' = "exited"
                    /\ UNCHANGED query_files_to_run
               ELSE /\ query_files_to_run' = <<filename_only>>
                    /\ pc' = "connect"
                    /\ UNCHANGED <<stdout, exitCode>>
       ELSE /\ query_files_to_run' = DEFAULT_QUERY_FILES
            /\ pc' = "connect"
            /\ UNCHANGED <<stdout, exitCode>>
    /\ conn' = "None"
    /\ all_successful' = TRUE
    /\ UNCHANGED <<args, dbFileExists, sqlFiles, resultsDir, csvFiles, idx, calls,
                   cur, before>>

\* lines 134-137, and 159-162 when sqlite3.connect raises
Connect ==
    /\ pc = "connect"
    /\ \/ /\ conn' = "open"
          /\ stdout' = stdout \o <<Line("Connected", <<>>)>>
          /\ idx' = 1
          /\ pc' = "loop"
          /\ UNCHANGED all_successful
       \/ /\ stdout' = stdout \o <<Line("!! DB connection error", <<>>)>>
          /\ all_successful' = FALSE
          /\ pc' = "finally"
          /\ UNCHANGED <<conn, idx>>
    /\ UNCHANGED <<args, dbFileExists, sqlFiles, resultsDir, csvFiles,
                   query_files_to_run, calls, cur, exitCode, before>>

\* lines 139-149, one iteration of the for loop, and 163-165 when
\* execute_query raises; the result set has a size in cards, or in csvCards
\* as well when it is exported
Iterate(cards, csvCards) ==
    /\ pc = "loop"
    /\ idx <= Len(query_files_to_run)
    /\ LET filename == query_files_to_run[idx]
           filepath == Join(SQL_FOLDER, filename)
       IN IF filename \notin sqlFiles
          THEN /\ stdout' = stdout \o <<Line("?? Warning: SQL file missing",
                                             PathText(filepath))>>
               /\ all_successful' = FALSE
               /\ calls' = Append(calls, [file |-> filename, outcome |-> "skipped"])
               /\ idx' = idx + 1
               /\ UNCHANGED <<pc, cur, csvFiles, resultsDir>>
          ELSE \E env \in Envs(cards, csvCards, args.csv) :
                 LET r == execute_query(filepath, args.limit, args.csv, env,
                                        sqlFiles, csvFiles, resultsDir)
                 IN /\ cur' = env
                    /\ csvFiles' = r.files
                    /\ resultsDir' = r.dir
                    /\ calls' = Append(calls, [file |-> filename, outcome |-> r.ret])
                    /\ IF r.ret \notin {"True", "False"}
                       THEN /\ stdout' = stdout \o r.out
                                   \o <<Line("!! Unexpected error in main", <<>>)>>
                            /\ all_successful' = FALSE
                            /\ pc' = "finally"
                            /\ UNCHANGED idx
                       ELSE /\ stdout' = stdout \o r.out
                            /\ all_successful' = (all_successful /\ r.ret = "True")
                            /\ idx' = idx + 1
                            /\ UNCHANGED pc
    /\ UNCHANGED <<args, dbFileExists, sqlFiles, query_files_to_run, conn,
                   exitCode, before>>

\* lines 151-156
WrapUp ==
    /\ pc = "loop"
    /\ idx > Len(query_files_to_run)
    /\ stdout' = stdout \o <<Line("------", <<>>),
                             IF all_successful
                             THEN Line("Script finished.", <<>>)
                             ELSE Line("Script finished, but with errors/warnings.",
                                       <<>>)>>
    /\ pc' = "finally"
    /\ UNCHANGED <<args, dbFileExists, sqlFiles, resultsDir, csvFiles,
                   query_files_to_run, idx, conn, all_successful, calls, cur,
                   exitCode, before>>

\* lines 167-175
Finally ==
    /\ pc = "finally"
    /\ conn' = CloseIfOpen(conn)
    /\ stdout' = stdout \o (IF conn' = "closed"
                            THEN <<Line("DB connection closed.", <<>>)>> ELSE <<>>)
    /\ exitCode' = <<ExitStatus(all_successful)>>
    /\ pc' = "exited"
    /\ UNCHANGED <<args, dbFileExists, sqlFiles, resultsDir, csvFiles,
                   query_files_to_run, idx, all_successful, calls, cur, before>>

\* the script is started again on the file system the last run left
Rerun ==
    /\ pc = "exited"
    /\ pc' = "check_db"
    /\ args' \in [sql_file : {args.sql_file}, limit : Limits, csv : BOOLEAN]
    /\ before' = [p \in DOMAIN csvFiles |-> Len(csvFiles[p])]
    /\ query_files_to_run' = <<>>
    /\ idx' = 1
    /\ conn' = "None"
    /\ all_successful' = TRUE
    /\ calls' = <<>>
    /\ cur' = NoEnv
    /\ stdout' = <<>>
    /\ exitCode' = <<>>
    /\ UNCHANGED <<dbFileExists, sqlFiles, resultsDir, csvFiles>>

-----------------------------------------------------------------------------
(* Specifications *)

Fresh ==
    /\ pc = "check_db"
    /\ resultsDir = FALSE
    /\ csvFiles = <<>>
    /\ before = <<>>
    /\ query_files_to_run = <<>>
    /\ idx = 1
    /\ conn = "None"
    /\ all_successful = TRUE
    /\ calls = <<>>
    /\ cur = NoEnv
    /\ stdout = <<>>
    /\ exitCode = <<>>

\* One run of the script: any command line, any set of query files present.
Init ==
    /\ Fresh
    /\ args \in [sql_file : SqlFileArgs, limit : {<<>>, <<1>>}, csv : BOOLEAN]
    /\ dbFileExists \in BOOLEAN
    /\ sqlFiles \in SUBSET DefaultFiles

Next == CheckDb \/ Resolve \/ Connect \/ Iterate(0..1, {}) \/ WrapUp \/ Finally

Spec == Init /\ [][Next]_vars

\* Runs of the script on one query file, over result sets of every size.
InitOne ==
    /\ Fresh
    /\ args \in [sql_file : {<<Join("", DEFAULT_QUERY_FILES[1])>>},
                 limit : Limits, csv : BOOLEAN]
    /\ dbFileExists = TRUE
    /\ sqlFiles \in {DefaultFiles, {}}

NextOne ==
    \/ CheckDb \/ Resolve \/ Connect \/ Iterate(SmallCards, LargeCards)
    \/ WrapUp \/ Finally \/ Rerun

SpecOne == InitOne /\ [][NextOne]_vars

-----------------------------------------------------------------------------
(* What the claims speak of *)

Exited == pc = "exited"
\* the requested limit, when it is a positive number
PositiveLimit == args.limit # <<>> /\ args.limit[1] > 0
\* a run of one query whose execute_query call has returned True
OneSuccess == Len(calls) = 1 /\ calls[1].outcome = "True"
ConsoleSuccess == OneSuccess /\ ~args.csv
CsvSuccess == OneSuccess /\ args.csv
RenderedRows == Texts(OfKind(stdout, "row"))
Indicated(kind) == OfKind(stdout, kind) # <<>>
StatusLines ==
    SelectSeq(stdout, LAMBDA l : l.kind \in
        {"Script finished.", "Script finished, but with errors/warnings."})
CsvPathOf(file) == <<RESULTS_FOLDER, <<file[1], ".csv">>>>
\* the complete export of the last result set
FullExport ==
    (IF cur.cols # <<>> THEN <<cur.cols>> ELSE <<>>)
    \o [i \in 1..Len(cur.rows) |-> <<ToString(cur.rows[i][1]), ToString(cur.rows[i][2])>>]
PreconditionFails ==
    \/ ~dbFileExists
    \/ args.sql_file # <<>> /\ args.sql_file[1][2] \notin sqlFiles

-----------------------------------------------------------------------------
(* Claims *)

\* C1: every error raised while one query is processed is caught inside
\* execute_query and turned into False: no exception leaves execute_query,
\* so every loop iteration ends in True, False or a skip.
C1_NoExceptionLeavesExecuteQuery ==
    \A i \in 1..Len(calls) : calls[i].outcome \in {"True", "False", "skipped"}

\* C2: once the session is open, every query of the list is attempted exactly
\* once and in list order, whatever became of the queries before it: when
\* main has ended, the iterations made are the list itself.
C2_EveryQueryAttemptedInOrder ==
    (Exited /\ conn = "closed") =>
        [i \in 1..Len(calls) |-> calls[i].file] = query_files_to_run

\* C3: a batch that passed the precondition checks ends with exactly one
\* overall status line, which reports clean success exactly when every query
\* of the list succeeded.
C3_OneStatusLine ==
    (Exited /\ exitCode = <<0>>) =>
        /\ Len(StatusLines) = 1
        /\ (StatusLines[1].kind = "Script finished.") <=>
              /\ Len(calls) = Len(query_files_to_run)
              /\ \A i \in 1..Len(calls) : calls[i].outcome = "True"

\* C4: on the console with limit N > 0 and K >= 1 rows, the rows shown are the
\* first min(N, K) rows of the result in order, and the truncation indicator
\* is shown exactly when K > N.
C4_LimitedConsole ==
    (ConsoleSuccess /\ PositiveLimit /\ Len(cur.rows) >= 1) =>
        LET N == args.limit[1]
            K == Len(cur.rows)
        IN /\ Len(RenderedRows) = (IF K >= N THEN N ELSE K)
           /\ \A i \in 1..Len(RenderedRows) :
                 RenderedRows[i] = <<ToString(cur.rows[i][1]), ToString(cur.rows[i][2])>>
           /\ Indicated("limited") <=> K > N
C4_Witness ==
    /\ ConsoleSuccess /\ PositiveLimit
    /\ Len(cur.rows) > args.limit[1]
    /\ Indicated("limited")
    /\ Len(RenderedRows) = args.limit[1]

\* C5: on the console with limit unset, zero or negative, every row of the
\* result is shown in order and the truncation indicator never is.
C5_UnlimitedConsole ==
    (ConsoleSuccess /\ ~PositiveLimit) =>
        /\ Len(RenderedRows) = Len(cur.rows)
        /\ \A i \in 1..Len(cur.rows) :
              RenderedRows[i] = <<ToString(cur.rows[i][1]), ToString(cur.rows[i][2])>>
        /\ ~Indicated("limited")
C5_Witness ==
    /\ ConsoleSuccess
    /\ args.limit = <<0>>
    /\ Len(cur.rows) >= 2
    /\ Len(RenderedRows) = Len(cur.rows)

\* C6: a CSV export holds the column names (when there are any) and then all
\* K rows of the result in order, whatever the limit and whatever K is, and
\* the row count reported is K.
C6_CsvComplete ==
    CsvSuccess =>
        LET path == CsvPathOf(calls[1].file)
        IN /\ path \in DOMAIN csvFiles
           /\ csvFiles[path] = FullExport
           /\ Texts(OfKind(stdout, "saved")) =
                 <<PathText(path) \o <<ToString(Len(cur.rows))>> >>
C6_Witness ==
    /\ CsvSuccess
    /\ args.limit = <<1>>
    /\ Len(cur.rows) = MaxChunks * FETCH_SIZE
    /\ Len(csvFiles[CsvPathOf(calls[1].file)]) = MaxChunks * FETCH_SIZE + 1

\* C7: a second CSV run of the same query writes the path the first run
\* wrote, and leaves in the file the second run's header and rows only.
C7_Overwrite ==
    LET path == CsvPathOf(calls[1].file)
    IN (CsvSuccess /\ path \in DOMAIN before) =>
          /\ DOMAIN csvFiles = DOMAIN before
          /\ csvFiles[path] = FullExport
C7_Witness ==
    /\ CsvSuccess
    /\ \E path \in DOMAIN before :
          /\ before[path] > Len(csvFiles[path])
          /\ Len(csvFiles[path]) > 1

\* C8: a session that was opened is closed on every way out of main: no
\* ended run leaves it open.
C8_SessionClosed ==
    Exited => /\ conn # "open"
              /\ Indicated("Connected") => conn = "closed"
C8_Witness ==
    /\ Exited
    /\ conn = "closed"
    /\ \E i \in 1..Len(calls) : calls[i].outcome = "UnboundLocalError"

\* C9: the process ends with a non-zero status exactly when the database file
\* or the explicitly requested query file is absent, and then no session was
\* opened, no query ran and nothing was written; per-query failures never
\* make the status non-zero.
C9_ExitStatus ==
    Exited =>
        /\ exitCode = (IF PreconditionFails THEN <<1>> ELSE <<0>>)
        /\ exitCode # <<0>> =>
              /\ conn = "None"
              /\ ~Indicated("Connected")
              /\ calls = <<>>
              /\ DOMAIN csvFiles = DOMAIN before
              /\ \A p \in DOMAIN csvFiles : Len(csvFiles[p]) = before[p]
              /\ ~resultsDir
C9_Witness ==
    /\ Exited
    /\ exitCode = <<1>>
    /\ dbFileExists
    /\ args.sql_file # <<>>

\* C10: on the console the "no results" indicator is shown exactly when the
\* result has no rows, for every limit, and then nothing else of the result
\* block is shown.
C10_NoResults ==
    ConsoleSuccess =>
        /\ Indicated("noresults") <=> Len(cur.rows) = 0
        /\ Indicated("noresults") =>
              /\ Len(OfKind(stdout, "noresults")) = 1
              /\ ~Indicated("header") /\ ~Indicated("rule")
              /\ ~Indicated("row") /\ ~Indicated("limited")
C10_Witness ==
    /\ ConsoleSuccess
    /\ PositiveLimit
    /\ cur.cols # <<>>
    /\ Len(cur.rows) = 0
    /\ Indicated("noresults")

====
